---- MODULE Spec2Model ----
(***************************************************************************)
(* Model of the two reference snippets of the repository:                  *)
(*   skills/backend-standards/examples/fastapi-endpoint.py  (user CRUD)    *)
(*   skills/backend-design/examples/sqlalchemy-model.py     (schema)       *)
(* Strings are sequences of character codes so that lower() is computed.   *)
(***************************************************************************)
EXTENDS Integers, Sequences, FiniteSets, TLC

VARIABLES users, nextUid, addresses, products, orders, order_items,
          req, deleted, lastStmt, listArgs, meta

vars == <<users, nextUid, addresses, products, orders, order_items,
          req, deleted, lastStmt, listArgs, meta>>

(* ------------------------------ bounds --------------------------------- *)
MaxUsers == 2
(* two workers serve requests concurrently *)
Procs == {"w1", "w2"}
MaxAddresses == 2
MaxProducts == 1
MaxOrders == 1
MaxItems == 1
MaxTotal == 26
MaxPage == 3
UserIds == 1..MaxUsers

(* "a", "A", "b": local parts of syntactically valid addresses *)
Emails == {<<97>>, <<65>>, <<98>>}
(* "n" is given at creation, "m" by updates *)
CreateNames == {<<110>>}
UpdateNames == {<<109>>}
Passwords == {<<120>>}
Keys == {"name", "email", "password"}

(* ----------------------------- helpers --------------------------------- *)
LowerChar(c) == IF c \in 65..90 THEN c + 32 ELSE c

Lower(s) == [i \in DOMAIN s |-> LowerChar(s[i])]

(* "A", "b": the addresses an update may carry *)
UpdateEmails == {<<65>>, <<98>>}

ValuesOf(k) == IF k = "email" THEN UpdateEmails
               ELSE IF k = "name" THEN UpdateNames ELSE Passwords

AllValues == Emails \cup UpdateNames \cup Passwords

UpdateDicts ==
    {u \in UNION {[ks -> AllValues] : ks \in SUBSET Keys} :
        \A k \in DOMAIN u : u[k] \in ValuesOf(k)}

NoDict == [k \in {} |-> <<>>]

(* --------------------------- HTTP outcomes ----------------------------- *)
NoOutcome == [status |-> 0, code |-> "NONE", field |-> "", id |-> 0, fields |-> {}]

Created(uid) == [status |-> 201, code |-> "OK", field |-> "", id |-> uid, fields |-> {}]

Ok(uid) == [status |-> 200, code |-> "OK", field |-> "", id |-> uid, fields |-> {}]

NoContent == [status |-> 204, code |-> "OK", field |-> "", id |-> 0, fields |-> {}]

EmailExists ==
    [status |-> 409, code |-> "EMAIL_EXISTS", field |-> "email", id |-> 0, fields |-> {}]

UserNotFound(uid) ==
    [status |-> 404, code |-> "USER_NOT_FOUND", field |-> "", id |-> uid, fields |-> {}]

InvalidFields(fs) ==
    [status |-> 400, code |-> "INVALID_FIELDS", field |-> "", id |-> 0, fields |-> fs]

(* an exception of the repository that no handler catches *)
Unhandled(what) ==
    [status |-> 500, code |-> what, field |-> "", id |-> 0, fields |-> {}]

(* --------------------------- users table ------------------------------- *)
(* unique=True on users.email: byte-wise equality of the column value *)
EmailUniqueViolation(tbl, uid, email) ==
    \E o \in DOMAIN tbl : o # uid /\ tbl[o].email = email

(* repo.get_by_email: case-insensitive lookup *)
GetByEmail(tbl, email) ==
    {o \in DOMAIN tbl : Lower(tbl[o].email) = Lower(email)}

GetById(tbl, uid) == uid \in DOMAIN tbl

Put(tbl, uid, row) == [o \in DOMAIN tbl \cup {uid} |-> IF o = uid THEN row ELSE tbl[o]]

Remove(tbl, ids) == [o \in DOMAIN tbl \ ids |-> tbl[o]]

ApplyUpdates(row, u) ==
    [email |-> IF "email" \in DOMAIN u THEN u["email"] ELSE row.email,
     name |-> IF "name" \in DOMAIN u THEN u["name"] ELSE row.name]

(* ------------------------------ requests ------------------------------- *)
NoneRemoved == [addresses |-> {}, orders |-> {}, order_items |-> {}]

NoStmt == [op |-> "none", result |-> "none", id |-> 0, flag |-> FALSE,
           status |-> "", total |-> 0, cascaded |-> NoneRemoved]

Idle == [pc |-> "idle", op |-> "none", id |-> 0, email |-> <<>>, name |-> <<>>,
         updates |-> NoDict, outcome |-> NoOutcome, wrote |-> FALSE,
         afterDelete |-> FALSE]

InFlightCreates == Cardinality({p \in Procs : req[p].pc = "await_create"})

Init ==
    /\ users = [o \in {} |-> 0]
    /\ nextUid = 1
    /\ addresses = [o \in {} |-> 0]
    /\ products = {}
    /\ orders = [o \in {} |-> 0]
    /\ order_items = [o \in {} |-> 0]
    /\ req = [p \in Procs |-> Idle]
    /\ deleted = {}
    /\ lastStmt = NoStmt
    /\ listArgs = [page |-> 0, per_page |-> 0, total |-> 0]
    /\ meta = [page |-> 0, per_page |-> 0, total_pages |-> 0, total_count |-> 0]

(* ------------------- repository calls on the users table --------------- *)
CurDb == [users |-> users, addresses |-> addresses, orders |-> orders,
          order_items |-> order_items, products |-> products]

SetDb(d) ==
    /\ users' = d.users
    /\ addresses' = d.addresses
    /\ orders' = d.orders
    /\ order_items' = d.order_items
    /\ products' = d.products

DeleteOrdersOf_None(db, uid) == db

(* User.orders cascade='all, delete-orphan', then Order.items likewise *)
DeleteOrdersOf(db, uid) ==
    LET gone == {o \in DOMAIN db.orders : db.orders[o].user_id = uid}
        goneItems == {i \in DOMAIN db.order_items : db.order_items[i].order_id \in gone}
    IN [db EXCEPT !.orders = Remove(db.orders, gone),
                  !.order_items = Remove(db.order_items, goneItems)]

(* User.addresses cascade; orders.shipping_address_id is ON DELETE SET NULL *)
DeleteAddressRows(db, gone) ==
    [db EXCEPT !.addresses = Remove(db.addresses, gone),
               !.orders = [o \in DOMAIN db.orders |->
                              IF db.orders[o].shipping_address_id \in gone
                              THEN [db.orders[o] EXCEPT !.shipping_address_id = 0]
                              ELSE db.orders[o]]]

DeleteAddressesOf(db, uid) ==
    DeleteAddressRows(db, {a \in DOMAIN db.addresses : db.addresses[a].user_id = uid})

(* orders.user_id is ON DELETE RESTRICT *)
UserRowRestricted(db, uid) ==
    \E o \in DOMAIN db.orders : db.orders[o].user_id = uid

(* the rows a delete took away with the user *)
Removed(before, after) ==
    [addresses |-> DOMAIN before.addresses \ DOMAIN after.addresses,
     orders |-> DOMAIN before.orders \ DOMAIN after.orders,
     order_items |-> DOMAIN before.order_items \ DOMAIN after.order_items]

(* session.delete(user): children first, then the users row *)
RepoDelete(db, uid) ==
    LET d1 == DeleteOrdersOf(db, uid)
        d2 == DeleteAddressesOf(d1, uid)
    IN IF UserRowRestricted(d2, uid)
       THEN [db |-> db, result |-> "ForeignKeyRestricted"]
       ELSE [db |-> [d2 EXCEPT !.users = Remove(d2.users, {uid})], result |-> "ok"]

(* ------------------------------ handlers ------------------------------- *)
Finish(p, r, out) == req' = [req EXCEPT ![p] = [r EXCEPT !.pc = "done", !.outcome = out]]

(* create_user without the pre-check before the insert *)
CreateUserCheck_NoPrecheck(p, email, name) ==
    /\ req[p].pc = "idle"
    /\ nextUid + InFlightCreates <= MaxUsers
    /\ req' = [req EXCEPT ![p] = [Idle EXCEPT !.op = "create", !.email = email,
                                              !.name = name, !.pc = "await_create"]]
    /\ UNCHANGED <<users, nextUid, addresses, products, orders, order_items,
                   deleted, lastStmt, listArgs, meta>>

(* create_user up to the await of repo.create *)
CreateUserCheck(p, email, name) ==
    /\ req[p].pc = "idle"
    /\ nextUid + InFlightCreates <= MaxUsers
    /\ LET r == [Idle EXCEPT !.op = "create", !.email = email, !.name = name]
           existing == GetByEmail(users, email)
       IN IF existing # {}
          THEN Finish(p, r, EmailExists)
          ELSE req' = [req EXCEPT ![p] = [r EXCEPT !.pc = "await_create"]]
    /\ UNCHANGED <<users, nextUid, addresses, products, orders, order_items,
                   deleted, lastStmt, listArgs, meta>>

(* repo.create and the return *)
CreateUserWrite(p) ==
    /\ req[p].pc = "await_create"
    /\ LET r == [req[p] EXCEPT !.wrote = TRUE]
       IN IF EmailUniqueViolation(users, nextUid, r.email)
          THEN /\ Finish(p, r, Unhandled("IntegrityError"))
               /\ UNCHANGED <<users, nextUid>>
          ELSE /\ users' = Put(users, nextUid, [email |-> r.email, name |-> r.name])
               /\ nextUid' = nextUid + 1
               /\ Finish(p, r, Created(nextUid))
    /\ UNCHANGED <<addresses, products, orders, order_items, deleted, lastStmt, listArgs, meta>>

GetUser(p, uid) ==
    /\ req[p].pc = "idle"
    /\ LET r == [Idle EXCEPT !.op = "get", !.id = uid]
       IN IF ~GetById(users, uid)
          THEN Finish(p, r, UserNotFound(uid))
          ELSE Finish(p, r, Ok(uid))
    /\ UNCHANGED <<users, nextUid, addresses, products, orders, order_items,
                   deleted, lastStmt, listArgs, meta>>

allowed_fields_WithPassword == {"name", "email", "password"}

allowed_fields == {"name", "email"}

(* update_user up to the await of repo.update *)
UpdateUserCheck(p, uid, updates) ==
    /\ req[p].pc = "idle"
    /\ LET r == [Idle EXCEPT !.op = "update", !.id = uid, !.updates = updates]
           invalid_fields == DOMAIN updates \ allowed_fields
       IN IF ~GetById(users, uid)
          THEN Finish(p, r, UserNotFound(uid))
          ELSE IF invalid_fields # {}
          THEN Finish(p, r, InvalidFields(invalid_fields))
          ELSE req' = [req EXCEPT ![p] = [r EXCEPT !.pc = "await_update"]]
    /\ UNCHANGED <<users, nextUid, addresses, products, orders, order_items,
                   deleted, lastStmt, listArgs, meta>>

(* repo.update and the return *)
UpdateUserWrite(p) ==
    /\ req[p].pc = "await_update"
    /\ LET r == [req[p] EXCEPT !.wrote = TRUE]
       IN IF ~GetById(users, r.id)
          THEN /\ Finish(p, r, Unhandled("NoRow"))
               /\ UNCHANGED users
          ELSE LET row == ApplyUpdates(users[r.id], r.updates)
               IN IF EmailUniqueViolation(users, r.id, row.email)
                  THEN /\ Finish(p, r, Unhandled("IntegrityError"))
                       /\ UNCHANGED users
                  ELSE /\ users' = Put(users, r.id, row)
                       /\ Finish(p, r, Ok(r.id))
    /\ UNCHANGED <<nextUid, addresses, products, orders, order_items,
                   deleted, lastStmt, listArgs, meta>>

(* delete_user without the 404 branch *)
DeleteUserCheck_NoLookup(p, uid) ==
    /\ req[p].pc = "idle"
    /\ req' = [req EXCEPT ![p] = [Idle EXCEPT !.op = "delete", !.id = uid,
                                              !.afterDelete = (uid \in deleted),
                                              !.pc = "await_delete"]]
    /\ UNCHANGED <<users, nextUid, addresses, products, orders, order_items,
                   deleted, lastStmt, listArgs, meta>>

(* delete_user up to the await of repo.delete *)
DeleteUserCheck(p, uid) ==
    /\ req[p].pc = "idle"
    /\ LET r == [Idle EXCEPT !.op = "delete", !.id = uid, !.afterDelete = (uid \in deleted)]
       IN IF ~GetById(users, uid)
          THEN Finish(p, r, UserNotFound(uid))
          ELSE req' = [req EXCEPT ![p] = [r EXCEPT !.pc = "await_delete"]]
    /\ UNCHANGED <<users, nextUid, addresses, products, orders, order_items,
                   deleted, lastStmt, listArgs, meta>>

(* repo.delete and the return; a row that vanished meanwhile either raises *)
(* in the repository or deletes nothing                                     *)
DeleteUserWrite(p) ==
    /\ req[p].pc = "await_delete"
    /\ LET r == [req[p] EXCEPT !.wrote = TRUE]
       IN IF ~GetById(users, r.id)
          THEN /\ \E out \in {Unhandled("NoRow"), NoContent} : Finish(p, r, out)
               /\ UNCHANGED <<users, addresses, products, orders, order_items, deleted>>
          ELSE LET res == RepoDelete(CurDb, r.id)
               IN /\ SetDb(res.db)
                  /\ IF res.result = "ok"
                     THEN /\ deleted' = deleted \cup {r.id}
                          /\ Finish(p, r, NoContent)
                     ELSE /\ UNCHANGED deleted
                          /\ Finish(p, r, Unhandled("IntegrityError"))
    /\ UNCHANGED <<nextUid, lastStmt, listArgs, meta>>

(* the response has been sent; the worker takes the next request *)
Respond(p) ==
    /\ req[p].pc = "done"
    /\ req' = [req EXCEPT ![p] = Idle]
    /\ UNCHANGED <<users, nextUid, addresses, products, orders, order_items,
                   deleted, lastStmt, listArgs, meta>>

Next ==
    \/ \E p \in Procs, e \in Emails, n \in CreateNames : CreateUserCheck(p, e, n)
    \/ \E p \in Procs : CreateUserWrite(p)
    \/ \E p \in Procs, u \in UserIds : GetUser(p, u)
    \/ \E p \in Procs, u \in UserIds, d \in UpdateDicts : UpdateUserCheck(p, u, d)
    \/ \E p \in Procs : UpdateUserWrite(p)
    \/ \E p \in Procs, u \in UserIds : DeleteUserCheck(p, u)
    \/ \E p \in Procs : DeleteUserWrite(p)
    \/ \E p \in Procs : Respond(p)

Spec == Init /\ [][Next]_vars

(* ------------------------- schema constraints -------------------------- *)
OrderStatus == {"pending", "confirmed", "processing", "shipped", "delivered", "cancelled"}

DefaultStatus == "pending"
DefaultTotal == 0

(* values a writer may send for orders.status and orders.total *)
StatusInputs == {"confirmed", "cancelled", "refunded"}
TotalInputs == {-1, 1}

(* ck_order_valid_status and ck_order_total_positive *)
OrderChecksHold_NoStatusCheck(row) == row.total >= 0

OrderChecksHold(row) == row.status \in OrderStatus /\ row.total >= 0

(* uq_user_default_address: UniqueConstraint('user_id', 'is_default'); a   *)
(* UNIQUE constraint has no WHERE clause, every row takes part              *)
DefaultAddressViolation(tbl, aid, row) ==
    \E a \in DOMAIN tbl :
        a # aid /\ tbl[a].user_id = row.user_id /\ tbl[a].is_default = row.is_default

(* uq_order_product *)
OrderProductViolation(tbl, oid, pid) ==
    \E i \in DOMAIN tbl : tbl[i].order_id = oid /\ tbl[i].product_id = pid

(* order_items.product_id is ON DELETE RESTRICT *)
ProductRestricted_Never(tbl, pid) == FALSE

ProductRestricted(tbl, pid) == \E i \in DOMAIN tbl : tbl[i].product_id = pid

HasFree(ids, max) == (1..max) \ ids # {}

NewId(ids, max) == CHOOSE n \in (1..max) \ ids : \A m \in (1..max) \ ids : n <= m

(* the statement just executed, its arguments and how it ended *)
Stmt(op, res, id) ==
    lastStmt' = [NoStmt EXCEPT !.op = op, !.result = res, !.id = id]

AddressStmt(op, res, id, flag) ==
    lastStmt' = [NoStmt EXCEPT !.op = op, !.result = res, !.id = id, !.flag = flag]

OrderStmt(op, res, id, row) ==
    lastStmt' = [NoStmt EXCEPT !.op = op, !.result = res, !.id = id,
                               !.status = row.status, !.total = row.total]

(* --------------------------- table writes ------------------------------ *)
InsertUser(email) ==
    /\ nextUid <= MaxUsers
    /\ IF EmailUniqueViolation(users, nextUid, email)
       THEN /\ Stmt("insert_user", "UniqueViolation", 0)
            /\ UNCHANGED <<users, nextUid>>
       ELSE /\ users' = Put(users, nextUid, [email |-> email, name |-> <<110>>])
            /\ nextUid' = nextUid + 1
            /\ Stmt("insert_user", "ok", nextUid)
    /\ UNCHANGED <<addresses, products, orders, order_items, req, deleted, listArgs, meta>>

DeleteUser(uid) ==
    /\ IF ~GetById(users, uid)
       THEN /\ Stmt("delete_user", "NotFound", uid)
            /\ UNCHANGED <<users, addresses, products, orders, order_items, deleted>>
       ELSE LET res == RepoDelete(CurDb, uid)
            IN /\ SetDb(res.db)
               /\ lastStmt' = [NoStmt EXCEPT !.op = "delete_user", !.result = res.result,
                                             !.id = uid,
                                             !.cascaded = Removed(CurDb, res.db)]
               /\ deleted' = IF res.result = "ok" THEN deleted \cup {uid} ELSE deleted
    /\ UNCHANGED <<nextUid, req, listArgs, meta>>

InsertAddress(uid, is_default) ==
    /\ HasFree(DOMAIN addresses, MaxAddresses)
    /\ LET aid == NewId(DOMAIN addresses, MaxAddresses)
           row == [user_id |-> uid, is_default |-> is_default]
       IN IF ~GetById(users, uid)
          THEN /\ AddressStmt("insert_address", "ForeignKeyViolation", 0, is_default)
               /\ UNCHANGED addresses
          ELSE IF DefaultAddressViolation(addresses, aid, row)
          THEN /\ AddressStmt("insert_address", "UniqueViolation", 0, is_default)
               /\ UNCHANGED addresses
          ELSE /\ AddressStmt("insert_address", "ok", aid, is_default)
               /\ addresses' = Put(addresses, aid, row)
    /\ UNCHANGED <<users, nextUid, products, orders, order_items, req, deleted, listArgs, meta>>

UpdateAddress(aid, is_default) ==
    /\ aid \in DOMAIN addresses
    /\ LET row == [addresses[aid] EXCEPT !.is_default = is_default]
       IN IF DefaultAddressViolation(addresses, aid, row)
          THEN /\ AddressStmt("update_address", "UniqueViolation", aid, is_default)
               /\ UNCHANGED addresses
          ELSE /\ AddressStmt("update_address", "ok", aid, is_default)
               /\ addresses' = Put(addresses, aid, row)
    /\ UNCHANGED <<users, nextUid, products, orders, order_items, req, deleted, listArgs, meta>>

DeleteAddress(aid) ==
    /\ aid \in DOMAIN addresses
    /\ SetDb(DeleteAddressRows(CurDb, {aid}))
    /\ Stmt("delete_address", "ok", aid)
    /\ UNCHANGED <<nextUid, req, deleted, listArgs, meta>>

InsertProduct ==
    /\ HasFree(products, MaxProducts)
    /\ LET pid == NewId(products, MaxProducts)
       IN products' = products \cup {pid} /\ Stmt("insert_product", "ok", pid)
    /\ UNCHANGED <<users, nextUid, addresses, orders, order_items, req, deleted, listArgs, meta>>

DeleteProduct(pid) ==
    /\ pid \in products
    /\ IF ProductRestricted(order_items, pid)
       THEN Stmt("delete_product", "ForeignKeyRestricted", pid) /\ UNCHANGED products
       ELSE Stmt("delete_product", "ok", pid) /\ products' = products \ {pid}
    /\ UNCHANGED <<users, nextUid, addresses, orders, order_items, req, deleted, listArgs, meta>>

(* CHECK constraints are evaluated on the row, foreign keys after it *)
WriteOrder(op, oid, row) ==
    IF ~OrderChecksHold(row)
    THEN OrderStmt(op, "CheckViolation", oid, row) /\ UNCHANGED orders
    ELSE IF ~GetById(users, row.user_id)
            \/ (row.shipping_address_id # 0
                /\ row.shipping_address_id \notin DOMAIN addresses)
    THEN OrderStmt(op, "ForeignKeyViolation", oid, row) /\ UNCHANGED orders
    ELSE OrderStmt(op, "ok", oid, row) /\ orders' = Put(orders, oid, row)

(* INSERT that leaves status and total to their column defaults *)
InsertOrderDefaults(uid, ship) ==
    /\ HasFree(DOMAIN orders, MaxOrders)
    /\ WriteOrder("insert_order", NewId(DOMAIN orders, MaxOrders),
                  [user_id |-> uid, shipping_address_id |-> ship,
                   status |-> DefaultStatus, total |-> DefaultTotal])
    /\ UNCHANGED <<users, nextUid, addresses, products, order_items, req, deleted, listArgs, meta>>

InsertOrder(uid, ship, st, total) ==
    /\ HasFree(DOMAIN orders, MaxOrders)
    /\ WriteOrder("insert_order", NewId(DOMAIN orders, MaxOrders),
                  [user_id |-> uid, shipping_address_id |-> ship,
                   status |-> st, total |-> total])
    /\ UNCHANGED <<users, nextUid, addresses, products, order_items, req, deleted, listArgs, meta>>

UpdateOrderStatus(oid, st) ==
    /\ oid \in DOMAIN orders
    /\ WriteOrder("update_order", oid, [orders[oid] EXCEPT !.status = st])
    /\ UNCHANGED <<users, nextUid, addresses, products, order_items, req, deleted, listArgs, meta>>

UpdateOrderTotal(oid, total) ==
    /\ oid \in DOMAIN orders
    /\ WriteOrder("update_order", oid, [orders[oid] EXCEPT !.total = total])
    /\ UNCHANGED <<users, nextUid, addresses, products, order_items, req, deleted, listArgs, meta>>

(* Order.items cascade and order_items.order_id ON DELETE CASCADE *)
DeleteOrder(oid) ==
    /\ oid \in DOMAIN orders
    /\ orders' = Remove(orders, {oid})
    /\ order_items' = Remove(order_items,
                             {i \in DOMAIN order_items : order_items[i].order_id = oid})
    /\ Stmt("delete_order", "ok", oid)
    /\ UNCHANGED <<users, nextUid, addresses, products, req, deleted, listArgs, meta>>

InsertOrderItem(oid, pid) ==
    /\ HasFree(DOMAIN order_items, MaxItems)
    /\ LET iid == NewId(DOMAIN order_items, MaxItems)
       IN IF oid \notin DOMAIN orders \/ pid \notin products
          THEN Stmt("insert_item", "ForeignKeyViolation", 0) /\ UNCHANGED order_items
          ELSE IF OrderProductViolation(order_items, oid, pid)
          THEN Stmt("insert_item", "UniqueViolation", 0) /\ UNCHANGED order_items
          ELSE /\ Stmt("insert_item", "ok", iid)
               /\ order_items' = Put(order_items, iid, [order_id |-> oid, product_id |-> pid])
    /\ UNCHANGED <<users, nextUid, addresses, products, orders, req, deleted, listArgs, meta>>

DeleteOrderItem(iid) ==
    /\ iid \in DOMAIN order_items
    /\ order_items' = Remove(order_items, {iid})
    /\ Stmt("delete_item", "ok", iid)
    /\ UNCHANGED <<users, nextUid, addresses, products, orders, req, deleted, listArgs, meta>>

(* inputs of the table-level specifications *)
DbEmails == {<<97>>, <<98>>}
AddressRefs == 0..MaxAddresses

UserWrites ==
    \/ \E e \in DbEmails : InsertUser(e)
    \/ \E u \in UserIds : DeleteUser(u)

NextAddr ==
    \/ UserWrites
    \/ \E u \in UserIds, d \in BOOLEAN : InsertAddress(u, d)
    \/ \E a \in 1..MaxAddresses, d \in BOOLEAN : UpdateAddress(a, d)
    \/ \E a \in 1..MaxAddresses : DeleteAddress(a)

SpecAddr == Init /\ [][NextAddr]_vars

NextOrders ==
    \/ UserWrites
    \/ \E u \in UserIds : InsertOrderDefaults(u, 0)
    \/ \E u \in UserIds, st \in StatusInputs, t \in TotalInputs : InsertOrder(u, 0, st, t)
    \/ \E o \in 1..MaxOrders, st \in StatusInputs : UpdateOrderStatus(o, st)
    \/ \E o \in 1..MaxOrders, t \in TotalInputs : UpdateOrderTotal(o, t)
    \/ \E o \in 1..MaxOrders : DeleteOrder(o)

SpecOrders == Init /\ [][NextOrders]_vars

NextItems ==
    \/ UserWrites
    \/ \E u \in UserIds : InsertAddress(u, FALSE)
    \/ \E a \in 1..MaxAddresses : DeleteAddress(a)
    \/ InsertProduct
    \/ \E pid \in 1..MaxProducts : DeleteProduct(pid)
    \/ \E u \in UserIds, a \in AddressRefs : InsertOrderDefaults(u, a)
    \/ \E o \in 1..MaxOrders : DeleteOrder(o)
    \/ \E o \in 1..MaxOrders, pid \in 1..MaxProducts : InsertOrderItem(o, pid)
    \/ \E i \in 1..MaxItems : DeleteOrderItem(i)

SpecItems == Init /\ [][NextItems]_vars

(* ------------------------------ list_users ----------------------------- *)
PerPageInputs == {1, 2, 3, 10, 100}

TotalPages_Floor(total, per_page) == total \div per_page

TotalPages(total, per_page) == (total + per_page - 1) \div per_page

(* list_users; total is the count repo.list_paginated returns *)
ListUsers(page, per_page, total) ==
    /\ listArgs' = [page |-> page, per_page |-> per_page, total |-> total]
    /\ meta' = [page |-> page, per_page |-> per_page,
                total_pages |-> TotalPages(total, per_page),
                total_count |-> total]
    /\ UNCHANGED <<users, nextUid, addresses, products, orders, order_items,
                   req, deleted, lastStmt>>

NextList ==
    \E page \in 1..MaxPage, per_page \in PerPageInputs, total \in 0..MaxTotal :
        ListUsers(page, per_page, total)

SpecList == Init /\ [][NextList]_vars

(* =========================== user endpoints ============================ *)
Finished(p, op) == req[p].pc = "done" /\ req[p].op = op

(* the step in which worker p takes a request and runs it to its first await *)
Takes(p, op) == req[p].pc = "idle" /\ req'[p] # req[p] /\ req'[p].op = op

SameEmailIgnoringCase(tbl, email) ==
    \E o \in DOMAIN tbl : Lower(tbl[o].email) = Lower(email)

(* C1: a Create User whose repo.create is rejected by the unique           *)
(* constraint on users.email ends as 409 EMAIL_EXISTS, like a request       *)
(* stopped by the pre-check, and never as a raw storage error.              *)
C1_RejectedInsertIsDuplicateEmail ==
    \A p \in Procs :
        (Finished(p, "create") /\ req[p].wrote /\ req[p].outcome.status # 201)
            => req[p].outcome = EmailExists

(* C2: a Create User that finds, when get_by_email runs, a stored user     *)
(* whose email equals the requested one ignoring case fails with 409        *)
(* EMAIL_EXISTS on field email, never calls repo.create, and leaves the     *)
(* stored users unchanged.                                                  *)
C2_PrecheckHitIsConflict ==
    [][\A p \in Procs :
          (Takes(p, "create") /\ SameEmailIgnoringCase(users, req'[p].email))
              => /\ req'[p].pc = "done"
                 /\ req'[p].outcome.status = 409
                 /\ req'[p].outcome.code = "EMAIL_EXISTS"
                 /\ req'[p].outcome.field = "email"
                 /\ ~req'[p].wrote
                 /\ users' = users]_vars

C2_Witness ==
    \E p \in Procs, o \in DOMAIN users :
        /\ Finished(p, "create")
        /\ req[p].outcome = EmailExists
        /\ ~req[p].wrote
        /\ users[o].email # req[p].email
        /\ Lower(users[o].email) = Lower(req[p].email)

(* C3: no two stored users have the same email, compared ignoring case,    *)
(* after any interleaving of Create User and Update User.                   *)
C3_EmailsUniqueIgnoringCase ==
    \A a, b \in DOMAIN users :
        a # b => Lower(users[a].email) # Lower(users[b].email)

(* C4: an Update User on an existing user with a key outside {name, email} *)
(* fails with 400 INVALID_FIELDS naming every rejected key, never calls     *)
(* repo.update, and changes no field of any user.                           *)
C4_DisallowedFieldRejectsAll ==
    [][\A p \in Procs :
          (/\ Takes(p, "update")
           /\ req'[p].id \in DOMAIN users
           /\ DOMAIN req'[p].updates \ {"name", "email"} # {})
              => /\ req'[p].pc = "done"
                 /\ req'[p].outcome.status = 400
                 /\ req'[p].outcome.code = "INVALID_FIELDS"
                 /\ req'[p].outcome.fields = DOMAIN req'[p].updates \ {"name", "email"}
                 /\ ~req'[p].wrote
                 /\ users' = users]_vars

C4_Witness ==
    \E p \in Procs :
        /\ Finished(p, "update")
        /\ req[p].outcome.code = "INVALID_FIELDS"
        /\ req[p].outcome.fields = {"password"}
        /\ DOMAIN req[p].updates = {"name", "email", "password"}
        /\ req[p].id \in DOMAIN users
        /\ users[req[p].id].name # req[p].updates["name"]
        /\ users[req[p].id].email # req[p].updates["email"]

(* C5: Get, Update and Delete User on an id with no stored user fail with  *)
(* 404 USER_NOT_FOUND naming that id and write nothing; an id that was      *)
(* deleted stays absent, so a later delete of it is such a failure.         *)
C5_MissingIdIsNotFound ==
    [][/\ \A p \in Procs :
             (/\ \E op \in {"get", "update", "delete"} : Takes(p, op)
              /\ req'[p].id \notin DOMAIN users)
                 => /\ req'[p].pc = "done"
                    /\ req'[p].outcome.status = 404
                    /\ req'[p].outcome.code = "USER_NOT_FOUND"
                    /\ req'[p].outcome.id = req'[p].id
                    /\ ~req'[p].wrote
                    /\ users' = users
       /\ deleted' \cap DOMAIN users' = {}]_vars

C5_Witness ==
    \E p, q \in Procs :
        /\ Finished(p, "delete")
        /\ req[p].afterDelete
        /\ req[p].outcome = UserNotFound(req[p].id)
        /\ Finished(q, "update")
        /\ req[q].outcome = UserNotFound(req[q].id)


(* ============================ data model =============================== *)
DefaultsOf(tbl, u) == {a \in DOMAIN tbl : tbl[a].user_id = u /\ tbl[a].is_default}

AddressWrite == {"insert_address", "update_address"}

(* C6: every user has at most one default Address, and the rule touches    *)
(* default addresses only: a write of an Address with is_default = false    *)
(* is never turned down for uniqueness.                                     *)
C6_OnlyDefaultIsExclusive ==
    /\ \A u \in UserIds : Cardinality(DefaultsOf(addresses, u)) <= 1
    /\ (lastStmt.op \in AddressWrite /\ lastStmt.result = "UniqueViolation")
           => lastStmt.flag

OrdersOf(tbl, u) == {o \in DOMAIN tbl : tbl[o].user_id = u}

ItemsOf(tbl, os) == {i \in DOMAIN tbl : tbl[i].order_id \in os}

ItemsReferToRows ==
    \A i \in DOMAIN order_items :
        /\ order_items[i].order_id \in DOMAIN orders
        /\ order_items[i].product_id \in products

(* C8: deleting a Product that an OrderItem references fails with          *)
(* ForeignKeyRestricted and changes neither products nor order items; and   *)
(* every OrderItem always refers to an existing Order and Product.          *)
C8_ProductDeleteRestricted ==
    [][/\ \A pid \in products :
             (/\ lastStmt'.op = "delete_product"
              /\ lastStmt'.id = pid
              /\ \E i \in DOMAIN order_items : order_items[i].product_id = pid)
                 => /\ lastStmt'.result = "ForeignKeyRestricted"
                    /\ products' = products
                    /\ order_items' = order_items
       /\ ItemsReferToRows']_vars

C8_Witness ==
    /\ lastStmt.op = "delete_product"
    /\ lastStmt.result = "ForeignKeyRestricted"
    /\ lastStmt.id \in products
    /\ \E i \in DOMAIN order_items : order_items[i].product_id = lastStmt.id

OrderWrite == {"insert_order", "update_order"}

ValidOrder(row) ==
    /\ row.total >= 0
    /\ row.status \in {"pending", "confirmed", "processing", "shipped",
                       "delivered", "cancelled"}

(* C9: every stored Order has total >= 0 and one of the six statuses,      *)
(* also when created with the defaults; a write carrying another status or  *)
(* a negative total is rejected and leaves the orders unchanged.            *)
C9_OrderChecks ==
    [][/\ \A o \in DOMAIN orders' : ValidOrder(orders'[o])
       /\ (lastStmt'.op \in OrderWrite /\ ~ValidOrder(lastStmt'))
              => (lastStmt'.result = "CheckViolation" /\ orders' = orders)]_vars

C9_Witness ==
    /\ lastStmt.op = "update_order"
    /\ lastStmt.result = "CheckViolation"
    /\ lastStmt.status = "refunded"
    /\ lastStmt.id \in DOMAIN orders
    /\ orders[lastStmt.id].status = "cancelled"
    /\ orders[lastStmt.id].total = 1

(* =============================== listing =============================== *)
(* the least n with n * per_page >= total *)
CeilDiv(total, per_page) ==
    CHOOSE n \in 0..total : n * per_page >= total /\ \A m \in 0..(n - 1) : m * per_page < total

(* C10: for page >= 1, per_page in 1..100 and any count the repository     *)
(* returns, meta.total_pages is ceil(total_count / per_page), 0 for an      *)
(* empty result, total_count is the repository's count, and page and        *)
(* per_page are echoed.                                                     *)
C10_PaginationMeta ==
    listArgs.per_page >= 1 =>
        /\ meta.total_pages = CeilDiv(listArgs.total, listArgs.per_page)
        /\ (listArgs.total = 0 => meta.total_pages = 0)
        /\ meta.total_count = listArgs.total
        /\ meta.page = listArgs.page
        /\ meta.per_page = listArgs.per_page

C10_Witness ==
    /\ listArgs = [page |-> 3, per_page |-> 10, total |-> 25]
    /\ meta.total_pages = 3

====
